---- MODULE Spec2Model ----
(***************************************************************************)
(* A model of the two converters of this repository,                       *)
(*   src/convert_study_notes_to_usfm.py  (variant "notes")                 *)
(*   src/convert_to_usfm.py              (variant "dict")                  *)
(* Python strings are TLA+ strings (TLC evaluates Len, \o and SubSeq on    *)
(* them), so substring matching, concatenation and ordering are computed   *)
(* character by character as Python computes them.                         *)
(***************************************************************************)
EXTENDS Naturals, Sequences, FiniteSets

VARIABLES
    pc,               \* position of the running function or of main()
    tiptap_content,   \* argument of extract_text_from_tiptap
    resource_map,     \* the resource map (argument of the flattener, local of the builder)
    result,           \* what the call returned or raised
    variant,          \* which converter runs: "notes" or "dict"
    texts,            \* the tagger's input, followed by the output of each run
    term_files,       \* the term files, in the order glob lists them
    json_files,       \* the set of source files glob finds in the input directory
    idx,              \* position of the running loop (from 1)
    log,              \* names of the files whose failure was caught and printed
    book_notes,       \* study notes: the groups of notes, in insertion order
    usfm_content,     \* dictionary: the output accumulated so far
    out_files         \* the output files written so far: path -> content

vars == <<pc, tiptap_content, resource_map, result, variant, texts, term_files,
          json_files, idx, log, book_notes, usfm_content, out_files>>

----------------------------------------------------------------------------
(* Bounds of the model.                                                    *)
MaxMarks == 2
MaxKids == 2
MaxRuns == 2
MaxTerms == 3
MaxFiles == 3

----------------------------------------------------------------------------
(* JSON / Python values, tagged by their Python type.                      *)
None == [t |-> "null", v |-> 0]
JNum(n) == [t |-> "num", v |-> n]
JStr(s) == [t |-> "str", v |-> s]
JList(q) == [t |-> "list", v |-> q]
JDict(f) == [t |-> "dict", v |-> f]
EmptyDict == JDict([k \in {} |-> None])

\* Sequences over S of length at most n.
SeqsUpTo(S, n) == UNION {[1..k -> S] : k \in 0..n}

\* A call's outcome: a returned value, or the exception it raised.
Ret(val) == [exc |-> "", val |-> val]
Raise(e) == [exc |-> e, val |-> None]

\* dict.get(key, default)
Get(d, key, default) == IF key \in DOMAIN d.v THEN d.v[key] ELSE default

\* Python truthiness of a value.
Truthy(x) ==
    CASE x.t = "null" -> FALSE
      [] x.t = "num" -> x.v # 0
      [] x.t = "str" -> x.v # ""
      [] x.t = "list" -> x.v # <<>>
      [] x.t = "dict" -> DOMAIN x.v # {}

\* str(n) for a natural number n.
RECURSIVE DecStr(_)
DecStr(n) ==
    IF n < 10 THEN SubSeq("0123456789", n + 1, n + 1)
    ELSE DecStr(n \div 10) \o SubSeq("0123456789", (n % 10) + 1, (n % 10) + 1)

\* str(x) / f"{x}" for the scalar values of the model.
PyStr(x) ==
    CASE x.t = "null" -> "None"
      [] x.t = "num" -> DecStr(x.v)
      [] x.t = "str" -> x.v

\* The keys of a dict in some order (Python: insertion order).
RECURSIVE SetToSeq(_)
SetToSeq(S) ==
    IF S = {} THEN <<>>
    ELSE LET x == CHOOSE y \in S : TRUE IN <<x>> \o SetToSeq(S \ {x})

\* `for item in x`: the items a for loop draws from x, or the TypeError of a
\* value that is not iterable.  A str yields its characters, a dict its keys.
Iter(x) ==
    CASE x.t = "list" -> [exc |-> "", items |-> x.v]
      [] x.t = "str" -> [exc |-> "", items |-> [i \in 1..Len(x.v) |-> JStr(SubSeq(x.v, i, i))]]
      [] x.t = "dict" ->
            LET ks == SetToSeq(DOMAIN x.v)
            IN [exc |-> "", items |-> [i \in 1..Len(ks) |-> JStr(ks[i])]]
      [] OTHER -> [exc |-> "TypeError", items |-> <<>>]

\* A slip that tests only `if resource_map:` and never looks the identifier up.
InResourceMap_NoLookup(resource_id, rmap) ==
    IF Truthy(rmap) THEN Ret(JNum(1)) ELSE Ret(JNum(0))

\* `resource_map and resource_id in resource_map`
InResourceMap(resource_id, rmap) ==
    IF ~Truthy(rmap) THEN Ret(JNum(0))
    ELSE IF resource_id.t \in {"list", "dict"} THEN Raise("TypeError")
    ELSE IF resource_id.t = "str" /\ resource_id.v \in DOMAIN rmap.v THEN Ret(JNum(1))
    ELSE Ret(JNum(0))

\* The loop over a text node's marks, from mark i on.
RECURSIVE ScanMarks(_, _, _, _)
ScanMarks(marks, i, text, rmap) ==
    IF i > Len(marks) THEN Ret(text)
    ELSE
        LET mark == marks[i] IN
        IF mark.t # "dict" THEN Raise("AttributeError")
        ELSE IF Get(mark, "type", None) # JStr("resourceReference")
        THEN ScanMarks(marks, i + 1, text, rmap)
        ELSE
            LET attrs == Get(mark, "attrs", EmptyDict) IN
            IF attrs.t # "dict" THEN Raise("AttributeError")
            ELSE
                LET found == InResourceMap(Get(attrs, "resourceId", None), rmap) IN
                IF found.exc # "" THEN found
                ELSE IF found.val = JNum(1)
                THEN Ret(JStr("\\k " \o PyStr(text) \o "\\k*"))
                ELSE ScanMarks(marks, i + 1, text, rmap)

\* A slip that joins the children with a space.
AddTo_Separator(acc, r) ==
    IF r.exc # "" THEN r
    ELSE IF r.val.t # "str" THEN Raise("TypeError")
    ELSE Ret(JStr(acc.val.v \o " " \o r.val.v))

\* result += <value returned for an item>
AddTo(acc, r) ==
    IF r.exc # "" THEN r
    ELSE IF r.val.t # "str" THEN Raise("TypeError")
    ELSE Ret(JStr(acc.val.v \o r.val.v))

RECURSIVE extract_text_from_tiptap(_, _)
RECURSIVE ExtractItems(_, _, _, _)
\* The loop `for item in ...: result += extract_text_from_tiptap(item, resource_map)`,
\* from item i on, with acc the result so far.
ExtractItems(items, i, acc, rmap) ==
    IF i > Len(items) THEN acc
    ELSE
        LET nxt == AddTo(acc, extract_text_from_tiptap(items[i], rmap)) IN
        IF nxt.exc # "" THEN nxt ELSE ExtractItems(items, i + 1, nxt, rmap)

extract_text_from_tiptap(content, rmap) ==
    IF content.t = "dict" THEN
        IF "text" \in DOMAIN content.v THEN
            IF "marks" \in DOMAIN content.v THEN
                LET it == Iter(Get(content, "marks", JList(<<>>))) IN
                IF it.exc # "" THEN Raise(it.exc)
                ELSE ScanMarks(it.items, 1, content.v["text"], rmap)
            ELSE Ret(content.v["text"])
        ELSE IF "content" \in DOMAIN content.v THEN
            LET it == Iter(content.v["content"]) IN
            IF it.exc # "" THEN Raise(it.exc)
            ELSE ExtractItems(it.items, 1, Ret(JStr("")), rmap)
        ELSE Ret(JStr(""))
    ELSE IF content.t = "list" THEN
        ExtractItems(content.v, 1, Ret(JStr("")), rmap)
    ELSE Ret(JStr(""))

----------------------------------------------------------------------------
(* The inputs of the flattener.                                            *)
RRMark(rid) == JDict([type |-> JStr("resourceReference"), attrs |-> JDict([resourceId |-> rid])])
GoodMarks ==
    { RRMark(JStr("1")), RRMark(JStr("2")), RRMark(JNum(1)),
      JDict([type |-> JStr("resourceReference")]),
      JDict([type |-> JStr("resourceReference"), attrs |-> EmptyDict]),
      JDict([type |-> JStr("bold")]),
      JDict([attrs |-> JDict([resourceId |-> JStr("1")])]) }
BadMarks ==
    { None, JStr("x"),
      JDict([type |-> JStr("resourceReference"), attrs |-> None]),
      RRMark(JList(<<>>)) }
GoodMarkLists == {JList(q) : q \in SeqsUpTo(GoodMarks, MaxMarks)}
MarkValues ==
    GoodMarkLists
    \cup {JList(q) : q \in SeqsUpTo(GoodMarks \cup BadMarks, MaxMarks)}
    \cup {None, JNum(3), JStr(""), JStr("x"), EmptyDict}
Texts == {JStr("a"), JStr("God"), JStr("")}
OddTexts == {None, JNum(7)}
\* Text leaves of the data model: a string, and optionally a list of mark dicts.
TextLeaves ==
    {JDict([text |-> tx]) : tx \in Texts}
    \cup {JDict([text |-> tx, marks |-> m]) : tx \in Texts, m \in GoodMarkLists}
\* Every dict with a 'text' key the model draws.
AllLeaves ==
    {JDict([text |-> tx]) : tx \in Texts \cup OddTexts}
    \cup {JDict([text |-> tx, marks |-> m]) : tx \in Texts \cup OddTexts, m \in MarkValues}
Kids0 ==
    { JDict([text |-> JStr("a")]),
      JDict([text |-> JStr("God"), marks |-> JList(<<RRMark(JStr("1"))>>)]),
      JDict([text |-> JStr("b"), marks |-> JList(<<RRMark(JStr("2"))>>)]),
      JDict([type |-> JStr("text"), text |-> JStr(" ")]),
      JDict([text |-> None]),
      JDict([text |-> JStr("a"), marks |-> None]),
      None, JStr("x"), EmptyDict }
Boxes(kids) ==
    {JDict([content |-> JList(q)]) : q \in SeqsUpTo(kids, MaxKids)}
    \cup {JDict([type |-> JStr("paragraph"), content |-> JList(q)]) : q \in SeqsUpTo(kids, MaxKids)}
    \cup {JList(q) : q \in SeqsUpTo(kids, MaxKids)}
Kids1 ==
    { JDict([text |-> JStr("a")]),
      JDict([text |-> JStr("God"), marks |-> JList(<<RRMark(JStr("1"))>>)]),
      JDict([content |-> JList(<<JDict([text |-> JStr("b")]), JDict([text |-> JStr("c")])>>)]),
      JList(<<JDict([text |-> JStr("d")]), JDict([content |-> JList(<<>>)])>>),
      JDict([type |-> JStr("doc"), content |-> JList(<<JDict([text |-> None])>>)]),
      JDict([type |-> JStr("hardBreak")]) }
OddBoxes ==
    { JDict([content |-> None]), JDict([content |-> JNum(3)]), JDict([content |-> JStr("ab")]),
      JDict([content |-> JDict([text |-> JStr("a")])]),
      JDict([foo |-> JNum(1)]), EmptyDict, None, JNum(1), JStr("x"), JStr("") }
Nodes == AllLeaves \cup Boxes(Kids0) \cup Boxes(Kids1) \cup OddBoxes
ResourceMaps ==
    { None, EmptyDict, JDict([k \in {"1"} |-> JStr("Faith")]),
      JDict([k \in {"1", "2"} |-> IF k = "1" THEN JStr("Faith") ELSE JStr("Hope")]) }

----------------------------------------------------------------------------
(* Specification of the flattener: one call on any node and any map.       *)
InitFlatten ==
    /\ pc = "call"
    /\ tiptap_content \in Nodes
    /\ resource_map \in ResourceMaps
    /\ result = Ret(None)
    /\ variant = "notes" /\ texts = <<>>
    /\ term_files = <<>> /\ json_files = {} /\ idx = 1 /\ log = <<>>
    /\ book_notes = <<>> /\ usfm_content = "" /\ out_files = <<>>

CallExtract ==
    /\ pc = "call"
    /\ result' = extract_text_from_tiptap(tiptap_content, resource_map)
    /\ pc' = "returned"
    /\ UNCHANGED <<tiptap_content, resource_map, variant, texts, term_files, json_files,
                   idx, log, book_notes, usfm_content, out_files>>

NextFlatten == CallExtract
SpecFlatten == InitFlatten /\ [][NextFlatten]_vars

----------------------------------------------------------------------------
(* The reference tagger, format_scripture_references.                      *)

\* text[i:i+len(p)] == p  (i counts from 1)
MatchesAt(s, i, p) == i + Len(p) - 1 <= Len(s) /\ SubSeq(s, i, i + Len(p) - 1) = p

\* The first position from i on where p occurs in s, or 0 when there is none.
FirstMatch(s, i, p) ==
    LET hits == {k \in i..Len(s) : MatchesAt(s, k, p)}
    IN  IF hits = {} THEN 0 ELSE CHOOSE k \in hits : \A h \in hits : k <= h

\* str.replace(old, new) from position i on: every non-overlapping occurrence,
\* left to right.
RECURSIVE ReplaceFrom(_, _, _, _)
ReplaceFrom(s, i, old, new) ==
    LET k == FirstMatch(s, i, old)
    IN  IF k = 0 THEN SubSeq(s, i, Len(s))
        ELSE SubSeq(s, i, k - 1) \o new \o ReplaceFrom(s, k + Len(old), old, new)

\* A tagger that leaves a text alone once it holds the replacement.
Replace_SkipTagged(s, old, new) ==
    IF FirstMatch(s, 1, new) > 0 THEN s ELSE ReplaceFrom(s, 1, old, new)

Replace(s, old, new) == ReplaceFrom(s, 1, old, new)

IsDigit(c) == c \in {"0", "1", "2", "3", "4", "5", "6", "7", "8", "9"}

\* The length of the longest run of digits that starts at position i: what a
\* greedy (\d+) takes there.
DigitsAt(s, i) ==
    LET runs == {n \in 0..(Len(s) + 1 - i) : \A k \in i..(i + n - 1) : IsDigit(SubSeq(s, k, k))}
    IN  IF i > Len(s) THEN 0 ELSE CHOOSE n \in runs : \A m \in runs : m <= n

\* The first position from i on where `{book} chapter (\d+)` matches, or 0.
FirstChapterMatch(s, i, book) ==
    LET lit == book \o " chapter "
        hits == {k \in i..Len(s) : MatchesAt(s, k, lit) /\ DigitsAt(s, k + Len(lit)) > 0}
    IN  IF hits = {} THEN 0 ELSE CHOOSE k \in hits : \A h \in hits : k <= h

\* re.sub(f"{book} chapter (\d+)", f"\\xt {book} \1\\xt*", text) from position i on.
RECURSIVE SubChapterFrom(_, _, _)
SubChapterFrom(s, i, book) ==
    LET k == FirstChapterMatch(s, i, book)
        j == k + Len(book \o " chapter ")
        n == DigitsAt(s, j)
    IN  IF k = 0 THEN SubSeq(s, i, Len(s))
        ELSE SubSeq(s, i, k - 1)
                \o "\\xt " \o book \o " " \o SubSeq(s, j, j + n - 1) \o "\\xt*"
                \o SubChapterFrom(s, j + n, book)

\* Where `{book} chapters (\d+) and (\d+)` matches at position k, the position
\* after the match; 0 where it does not match.
ChaptersMatchEnd(s, k, book) ==
    LET lit == book \o " chapters "
        j == k + Len(lit)
        n == DigitsAt(s, j)
        a == j + n + Len(" and ")
        m == DigitsAt(s, a)
    IN  IF MatchesAt(s, k, lit) /\ n > 0 /\ MatchesAt(s, j + n, " and ") /\ m > 0
        THEN a + m ELSE 0

FirstChaptersMatch(s, i, book) ==
    LET hits == {k \in i..Len(s) : ChaptersMatchEnd(s, k, book) > 0}
    IN  IF hits = {} THEN 0 ELSE CHOOSE k \in hits : \A h \in hits : k <= h

\* re.sub(f"{book} chapters (\d+) and (\d+)", f"\\xt {book} \1-\2\\xt*", text)
\* from position i on.
RECURSIVE SubChaptersFrom(_, _, _)
SubChaptersFrom(s, i, book) ==
    LET k == FirstChaptersMatch(s, i, book)
        j == k + Len(book \o " chapters ")
        n == DigitsAt(s, j)
        e == ChaptersMatchEnd(s, k, book)
        m == DigitsAt(s, j + n + Len(" and "))
    IN  IF k = 0 THEN SubSeq(s, i, Len(s))
        ELSE SubSeq(s, i, k - 1)
                \o "\\xt " \o book \o " " \o SubSeq(s, j, j + n - 1) \o "-"
                \o SubSeq(s, e - m, e - 1) \o "\\xt*" \o SubChaptersFrom(s, e, book)

\* re.sub(f"book of {book}", f"book of \\xt {book}\\xt*", text): a pattern of
\* literal characters only.
SubBookOf(s, book) == ReplaceFrom(s, 1, "book of " \o book, "book of \\xt " \o book \o "\\xt*")

bible_books ==
    <<"Genesis", "Exodus", "Leviticus", "Numbers", "Deuteronomy", "Joshua",
       "Judges", "Ruth", "1 Samuel", "2 Samuel", "1 Kings", "2 Kings",
       "1 Chronicles", "2 Chronicles", "Ezra", "Nehemiah", "Esther", "Job",
       "Psalm", "Psalms", "Proverbs", "Ecclesiastes", "Song of Solomon",
       "Song of Songs", "Isaiah", "Jeremiah", "Lamentations", "Ezekiel", "Daniel",
       "Hosea", "Joel", "Amos", "Obadiah", "Jonah", "Micah", "Nahum", "Habakkuk",
       "Zephaniah", "Haggai", "Zechariah", "Malachi", "Matthew", "Mark", "Luke",
       "John", "Acts", "Romans", "1 Corinthians", "2 Corinthians", "Galatians",
       "Ephesians", "Philippians", "Colossians", "1 Thessalonians",
       "2 Thessalonians", "1 Timothy", "2 Timothy", "Titus", "Philemon", "Hebrews",
       "James", "1 Peter", "2 Peter", "1 John", "2 John", "3 John", "Jude",
       "Revelation" >>

\* The citations replaced literally; the study-notes converter has one more.
Literals(v) ==
    <<"Exodus 3:14", "Luke 8:31", "Psalm 95", "Acts 25-26", "Judges 5", "Zechariah 8">>
    \o (IF v = "notes" THEN <<"Exodus 34:6">> ELSE <<>>)

\* `first; then`: the text `first` is computed before `then` is (TLC evaluates
\* operator arguments and LET definitions on demand, which would nest the 200
\* substitutions of a run inside one another).
Seq2(first, then) == IF Len(first) >= 0 THEN then ELSE then

\* The four passes of the tagger.  Each is a loop `for x in xs: text = sub(x, text)`
\* over a list; entries lo..hi are applied in list order, the first half and
\* then the second (which keeps the depth of the evaluation logarithmic).
RECURSIVE LiteralPass(_, _, _, _)
LiteralPass(s, lits, lo, hi) ==
    IF lo = hi THEN Replace(s, lits[lo], "\\xt " \o lits[lo] \o "\\xt*")
    ELSE LET t == LiteralPass(s, lits, lo, (lo + hi) \div 2)
         IN  Seq2(t, LiteralPass(t, lits, ((lo + hi) \div 2) + 1, hi))
RECURSIVE ChapterPass(_, _, _)
ChapterPass(s, lo, hi) ==
    IF lo = hi THEN SubChapterFrom(s, 1, bible_books[lo])
    ELSE LET t == ChapterPass(s, lo, (lo + hi) \div 2)
         IN  Seq2(t, ChapterPass(t, ((lo + hi) \div 2) + 1, hi))
RECURSIVE ChaptersPass(_, _, _)
ChaptersPass(s, lo, hi) ==
    IF lo = hi THEN SubChaptersFrom(s, 1, bible_books[lo])
    ELSE LET t == ChaptersPass(s, lo, (lo + hi) \div 2)
         IN  Seq2(t, ChaptersPass(t, ((lo + hi) \div 2) + 1, hi))
RECURSIVE BookOfPass(_, _, _)
BookOfPass(s, lo, hi) ==
    IF lo = hi THEN SubBookOf(s, bible_books[lo])
    ELSE LET t == BookOfPass(s, lo, (lo + hi) \div 2)
         IN  Seq2(t, BookOfPass(t, ((lo + hi) \div 2) + 1, hi))

format_scripture_references(s, v) ==
    LET n == Len(bible_books)
        t1 == LiteralPass(s, Literals(v), 1, Len(Literals(v)))
        t2 == Seq2(t1, ChapterPass(t1, 1, n))
        t3 == Seq2(t2, ChaptersPass(t2, 1, n))
    IN  Seq2(t3, BookOfPass(t3, 1, n))

\* The range of bible_books as a set.
Books == {bible_books[i] : i \in 1..Len(bible_books)}
Variants == {"notes", "dict"}
ChapterNumbers == {"2", "5", "12", "150"}
ChapterPhrase(b, n) == b \o " chapter " \o n
BookOfPhrase(b) == "book of " \o b
TaggerInputs ==
    {ChapterPhrase(b, n) : b \in Books, n \in ChapterNumbers}
    \cup {BookOfPhrase(b) : b \in Books}
    \cup {b \o " chapters 3 and 4" : b \in Books}
    \cup {Literals("notes")[i] : i \in 1..Len(Literals("notes"))}
    \cup { "", "no citation here", "See Genesis chapter 2 for details.",
           "the book of Judges, Judges 5 and Judges 5", "Genesis chapter two",
           "Hebrews chapters 3 and four", "Psalm 95 and Psalms chapter 95" }

----------------------------------------------------------------------------
(* Specification of the tagger: the tagger run on a text, then again on    *)
(* its own output.                                                         *)
InitTagger ==
    /\ pc = "tag"
    /\ variant \in Variants
    /\ texts \in {<<s>> : s \in TaggerInputs}
    /\ tiptap_content = None /\ resource_map = None /\ result = Ret(None)
    /\ term_files = <<>> /\ json_files = {} /\ idx = 1 /\ log = <<>>
    /\ book_notes = <<>> /\ usfm_content = "" /\ out_files = <<>>

CallFormat ==
    /\ pc = "tag"
    /\ Len(texts) <= MaxRuns
    /\ texts' = Append(texts, format_scripture_references(texts[Len(texts)], variant))
    /\ UNCHANGED <<pc, variant, tiptap_content, resource_map, result, term_files,
                   json_files, idx, log, book_notes, usfm_content, out_files>>

NextTagger == CallFormat
SpecTagger == InitTagger /\ [][NextTagger]_vars

----------------------------------------------------------------------------
(* Strings: order, split, join.                                            *)

\* The characters of the strings the model compares, in code point order.
Chars == "\n !()*,-.0123456789:ABCDEFGHIJKLMNOPQRSTUVWXYZ\\_abcdefghijklmnopqrstuvwxyz"
Ord(c) == CHOOSE i \in 1..Len(Chars) : SubSeq(Chars, i, i) = c

\* a < b on Python strings: lexicographic, by code point.
StrLess(a, b) ==
    LET n == IF Len(a) < Len(b) THEN Len(a) ELSE Len(b)
        diff == {i \in 1..n : SubSeq(a, i, i) # SubSeq(b, i, i)}
    IN  IF diff = {} THEN Len(a) < Len(b)
        ELSE LET k == CHOOSE i \in diff : \A j \in diff : i <= j
             IN  Ord(SubSeq(a, k, k)) < Ord(SubSeq(b, k, k))

\* s.split(sep)
RECURSIVE Split(_, _)
Split(s, sep) ==
    LET k == FirstMatch(s, 1, sep)
    IN  IF k = 0 THEN <<s>>
        ELSE <<SubSeq(s, 1, k - 1)>> \o Split(SubSeq(s, k + Len(sep), Len(s)), sep)

\* sep.join(parts)
RECURSIVE Join(_, _)
Join(parts, sep) ==
    IF parts = <<>> THEN ""
    ELSE IF Len(parts) = 1 THEN parts[1]
    ELSE parts[1] \o sep \o Join(Tail(parts), sep)

\* s.isdigit()
IsDigitStr(s) == s # "" /\ \A i \in 1..Len(s) : IsDigit(SubSeq(s, i, i))

\* needle in haystack, for strings
Contains(haystack, needle) == needle = "" \/ FirstMatch(haystack, 1, needle) > 0

----------------------------------------------------------------------------
(* Files.  A file is its name, whether open() and json.load() succeed on   *)
(* it, and the JSON value it holds.  Names are base names: the directory   *)
(* prefix glob adds is the same for every file of a directory.             *)
File(fname, data) == [fname |-> fname, readable |-> TRUE, data |-> data]
Unreadable(fname) == [fname |-> fname, readable |-> FALSE, data |-> None]

\* sorted(json_files): the files of a set in increasing order of their names.
RECURSIVE SortFiles(_)
SortFiles(files) ==
    IF files = {} THEN <<>>
    ELSE LET first == CHOOSE f \in files :
                          \A g \in files : g.fname = f.fname \/ StrLess(f.fname, g.fname)
         IN  <<first>> \o SortFiles(files \ {first})

\* One iteration of build_resource_map's loop: the map after `file`.  A file
\* that cannot be read, or whose JSON is not an object, raises inside the try
\* and leaves the map as it was.
MapStep(rmap, file) ==
    IF ~file.readable \/ file.data.t # "dict" THEN rmap
    ELSE LET resource_id == PyStr(Get(file.data, "referenceId", JStr("")))
             term_name == Get(file.data, "name", JStr(""))
         IN  IF resource_id # "" /\ Truthy(term_name)
             THEN JDict([k \in DOMAIN rmap.v \cup {resource_id} |->
                            IF k = resource_id THEN term_name ELSE rmap.v[k]])
             ELSE rmap

\* build_resource_map over the files in the order glob lists them.
RECURSIVE build_resource_map(_)
build_resource_map(files) ==
    IF files = <<>> THEN EmptyDict
    ELSE MapStep(build_resource_map(SubSeq(files, 1, Len(files) - 1)), files[Len(files)])

----------------------------------------------------------------------------
(* File names and book codes.                                              *)
extract_book_and_reference(filename) ==
    LET parts == Split(filename, "_")
    IN  IF IsDigitStr(parts[1])
        THEN IF Len(parts) < 2
             THEN [exc |-> "IndexError", book_name |-> "", reference |-> ""]
             ELSE [exc |-> "", book_name |-> parts[1] \o " " \o parts[2],
                   reference |-> Join(SubSeq(parts, 3, Len(parts) - 1), ":")]
        ELSE [exc |-> "", book_name |-> parts[1],
              reference |-> Join(SubSeq(parts, 2, Len(parts) - 1), ":")]

book_ids ==
    { <<"Genesis", "GEN">>, <<"Exodus", "EXO">>, <<"Leviticus", "LEV">>,
      <<"Numbers", "NUM">>, <<"Deuteronomy", "DEU">>, <<"Joshua", "JOS">>,
      <<"Judges", "JDG">>, <<"Ruth", "RUT">>, <<"1 Samuel", "1SA">>,
      <<"2 Samuel", "2SA">>, <<"1 Kings", "1KI">>, <<"2 Kings", "2KI">>,
      <<"1 Chronicles", "1CH">>, <<"2 Chronicles", "2CH">>, <<"Ezra", "EZR">>,
      <<"Nehemiah", "NEH">>, <<"Esther", "EST">>, <<"Job", "JOB">>,
      <<"Psalms", "PSA">>, <<"Proverbs", "PRO">>, <<"Ecclesiastes", "ECC">>,
      <<"Song of Solomon", "SNG">>, <<"Isaiah", "ISA">>, <<"Jeremiah", "JER">>,
      <<"Lamentations", "LAM">>, <<"Ezekiel", "EZK">>, <<"Daniel", "DAN">>,
      <<"Hosea", "HOS">>, <<"Joel", "JOL">>, <<"Amos", "AMO">>, <<"Obadiah", "OBA">>,
      <<"Jonah", "JON">>, <<"Micah", "MIC">>, <<"Nahum", "NAM">>,
      <<"Habakkuk", "HAB">>, <<"Zephaniah", "ZEP">>, <<"Haggai", "HAG">>,
      <<"Zechariah", "ZEC">>, <<"Malachi", "MAL">>, <<"Matthew", "MAT">>,
      <<"Mark", "MRK">>, <<"Luke", "LUK">>, <<"John", "JHN">>, <<"Acts", "ACT">>,
      <<"Romans", "ROM">>, <<"1 Corinthians", "1CO">>, <<"2 Corinthians", "2CO">>,
      <<"Galatians", "GAL">>, <<"Ephesians", "EPH">>, <<"Philippians", "PHP">>,
      <<"Colossians", "COL">>, <<"1 Thessalonians", "1TH">>,
      <<"2 Thessalonians", "2TH">>, <<"1 Timothy", "1TI">>, <<"2 Timothy", "2TI">>,
      <<"Titus", "TIT">>, <<"Philemon", "PHM">>, <<"Hebrews", "HEB">>,
      <<"James", "JAS">>, <<"1 Peter", "1PE">>, <<"2 Peter", "2PE">>,
      <<"1 John", "1JN">>, <<"2 John", "2JN">>, <<"3 John", "3JN">>, <<"Jude", "JUD">>,
      <<"Revelation", "REV">> }

get_book_id(book_name) ==
    IF \E p \in book_ids : p[1] = book_name
    THEN (CHOOSE p \in book_ids : p[1] = book_name)[2]
    ELSE "UNK"

----------------------------------------------------------------------------
(* The document processor.                                                 *)

\* `'tiptap' in content_item`
HasTiptap(item) ==
    CASE item.t = "dict" -> Ret(JNum(IF "tiptap" \in DOMAIN item.v THEN 1 ELSE 0))
      [] item.t = "str" -> Ret(JNum(IF Contains(item.v, "tiptap") THEN 1 ELSE 0))
      [] item.t = "list" ->
            Ret(JNum(IF \E i \in 1..Len(item.v) : item.v[i] = JStr("tiptap") THEN 1 ELSE 0))
      [] OTHER -> Raise("TypeError")

\* The loop over data.get('content', []) from item i on: content_text so far
\* is acc.  content_item['tiptap'] raises on anything but a dict.
RECURSIVE ContentText(_, _, _, _)
ContentText(items, i, acc, rmap) ==
    IF i > Len(items) THEN acc
    ELSE
        LET has == HasTiptap(items[i]) IN
        IF has.exc # "" THEN has
        ELSE IF has.val = JNum(0) THEN ContentText(items, i + 1, acc, rmap)
        ELSE IF items[i].t # "dict" THEN Raise("TypeError")
        ELSE
            LET nxt == AddTo(acc, extract_text_from_tiptap(items[i].v["tiptap"], rmap)) IN
            IF nxt.exc # "" THEN nxt ELSE ContentText(items, i + 1, nxt, rmap)

Failed(e) == [exc |-> e, book_name |-> "", reference |-> None, usfm |-> ""]

\* process_json_file of converter v on a file: the exception it raises, or the
\* book name (study notes only), the document's name field and the record
\* rendered from it.
process_json_file(file, rmap, v) ==
    IF ~file.readable THEN Failed("JSONDecodeError")
    ELSE IF file.data.t # "dict" THEN Failed("AttributeError")
    ELSE
        LET name == Get(file.data, "name", JStr(""))
            book == IF v = "notes" THEN extract_book_and_reference(file.fname)
                    ELSE [exc |-> "", book_name |-> "", reference |-> ""]
            it == Iter(Get(file.data, "content", JList(<<>>)))
            content_text == IF it.exc # "" THEN Raise(it.exc)
                            ELSE ContentText(it.items, 1, Ret(JStr("")), rmap)
        IN  IF book.exc # "" THEN Failed(book.exc)
            ELSE IF content_text.exc # "" THEN Failed(content_text.exc)
            ELSE
                LET tagged == format_scripture_references(content_text.val.v, v) IN
                [exc |-> "", book_name |-> book.book_name, reference |-> name,
                 usfm |-> IF v = "notes"
                          THEN "\\im \\bd " \o PyStr(name) \o "\\bd* " \o tagged \o "\n"
                          ELSE "\\p \\k " \o PyStr(name) \o "\\k*\\im " \o tagged]

----------------------------------------------------------------------------
(* The batch orchestrators.                                                *)

\* (reference, usfm_content) < (reference, usfm_content) on tuples whose
\* references are both strings or both null.
NoteLess(a, b) ==
    IF a.reference = b.reference THEN StrLess(a.usfm, b.usfm)
    ELSE StrLess(a.reference.v, b.reference.v)

\* The sorted order of a list of notes none of whose comparisons raises.
RECURSIVE SortedNotes(_)
SortedNotes(notes) ==
    IF notes = <<>> THEN <<>>
    ELSE LET k == CHOOSE i \in 1..Len(notes) :
                      \A j \in 1..Len(notes) : ~NoteLess(notes[j], notes[i])
         IN  <<notes[k]>> \o SortedNotes([i \in 1..(Len(notes) - 1) |->
                                            IF i < k THEN notes[i] ELSE notes[i + 1]])

\* A slip that leaves the notes in the order the files were processed.
SortNotes_Unsorted(notes) == [exc |-> "", notes |-> notes]

\* notes.sort(): comparing a null reference with a string one raises TypeError,
\* and a sort of two or more notes of both kinds makes such a comparison.
SortNotes(notes) ==
    IF \E i, j \in 1..Len(notes) : notes[i].reference.t # notes[j].reference.t
    THEN [exc |-> "TypeError", notes |-> notes]
    ELSE [exc |-> "", notes |-> SortedNotes(notes)]

NotesHeader(book_id, book_name) ==
    "\\id " \o book_id \o " - Biblica Study Notes\n"
    \o "\\rem Copyright © 2023 by Biblica, Inc.\n"
    \o "\\h " \o book_name \o " Study Notes\n"
    \o "\\toc1 " \o book_name \o " Study Notes\n"
    \o "\\toc2 " \o book_name \o " Study Notes\n"
    \o "\\toc3 " \o book_name \o "\n"
    \o "\\mt1 " \o book_name \o " Study Notes\n"
    \o "\n"
    \o "\\periph Copyright Information\n"
    \o "\\mt Biblica Study Notes\n"
    \o "\\pc Copyright © 2023 Biblica, Inc.\n"
    \o "\\pc https://www.biblica.com/\n"
    \o "\\pc Licensed under CC BY-SA 4.0 license\n"
    \o "\\pc https://creativecommons.org/licenses/by-sa/4.0/legalcode.en\n"
    \o "\n"

DictHeader ==
    "\\id BD\n"
    \o "\\c 1\n"
    \o "\\ms Biblica Key Terms Dictionary\n"
    \o "\n"
    \o "\\periph Copyright Information\n"
    \o "\\mt Biblica Bible Dictionary\n"
    \o "\\pc Copyright © 2023 Biblica, Inc.\n"
    \o "\\pc https://www.biblica.com/\n"
    \o "\\pc Licensed under CC BY-SA 4.0 license\n"
    \o "\\pc https://creativecommons.org/licenses/by-sa/4.0/legalcode.en\n"
    \o "\n"

DictOutputFile == "BiblicaKeyTerms.sfm"
NotesOutputFile(book_id) == book_id \o "_StudyNotes.SFM"

\* The contents of the notes of a list, concatenated.
RECURSIVE NoteContents(_)
NoteContents(notes) ==
    IF notes = <<>> THEN "" ELSE notes[1].usfm \o NoteContents(Tail(notes))

\* book_notes[book_name].append((reference, usfm_content)) on the defaultdict,
\* kept as the list of its items in insertion order.
AppendNote(groups, book_name, note) ==
    IF \E i \in 1..Len(groups) : groups[i].book_name = book_name
    THEN [i \in 1..Len(groups) |->
            IF groups[i].book_name = book_name
            THEN [groups[i] EXCEPT !.notes = Append(@, note)]
            ELSE groups[i]]
    ELSE Append(groups, [book_name |-> book_name, notes |-> <<note>>])

\* open(path, 'w').write(content): the file is created or overwritten.
WriteFile(files, path, content) ==
    [p \in DOMAIN files \cup {path} |-> IF p = path THEN content ELSE files[p]]

----------------------------------------------------------------------------
(* The documents and directories the batch model draws.                    *)
Tiptap(node) == JDict([tiptap |-> JDict([type |-> JStr("doc"), content |-> JList(<<node>>)])])
Leaf(s) == JDict([type |-> JStr("text"), text |-> JStr(s)])
Paragraph(nodes) == JDict([type |-> JStr("paragraph"), content |-> JList(nodes)])
Document(id, name, blocks) ==
    JDict([referenceId |-> id, name |-> name, content |-> JList(blocks)])

DocMatthew7 ==
    File("Matthew_7_1_12_132540.json",
         Document(JNum(1), JStr("Matthew 7:1-12"),
                  <<Tiptap(Leaf("See Genesis chapter 2."))>>))
DocMatthew1 ==
    File("Matthew_1_1_17_300.json",
         Document(JNum(2), JStr("Matthew 9:9"),
                  <<Tiptap(Paragraph(<<JDict([text |-> JStr("God"),
                                              marks |-> JList(<<RRMark(JStr("1"))>>)]),
                                       Leaf(" saves")>>)),
                    JDict([id |-> JNum(5)])>>))
DocJohn ==
    File("1_John_2_1_6_400.json",
         Document(JNum(3), JStr("1 John 2:1-6"), <<Tiptap(Leaf("Psalm 95"))>>))
DocFoo ==
    File("Foo_1_1_500.json", Document(JNum(4), JStr("Foo 1:1"), <<Tiptap(Leaf("x"))>>))
DocBar ==
    File("Bar_1_1_600.json", Document(JNum(5), JStr("Bar 1:1"), <<Tiptap(Leaf("y"))>>))
DocUnreadable == Unreadable("Matthew_2_1_700.json")
DocNullName ==
    File("Matthew_3_1_800.json", Document(JNum(7), None, <<Tiptap(Leaf("z"))>>))
DocBadMarks ==
    File("Mark_1_1_900.json",
         Document(JNum(8), JStr("Mark 1:1"),
                  <<Tiptap(JDict([text |-> JStr("a"), marks |-> None]))>>))
DocUniverse ==
    { DocMatthew7, DocMatthew1, DocJohn, DocFoo, DocBar,
      DocUnreadable, DocNullName, DocBadMarks }

TermFaith == File("Faith_1.json", JDict([referenceId |-> JNum(1), name |-> JStr("Faith")]))
TermDirs == {{}, {TermFaith}}

TermUniverse ==
    { TermFaith,
      File("Empty_2.json", JDict([referenceId |-> JStr("2"), name |-> JStr("")])),
      File("NullId_3.json", JDict([referenceId |-> None, name |-> JStr("Grace")])),
      File("NoId_4.json", JDict([name |-> JStr("Hope")])),
      Unreadable("Broken_5.json"),
      File("EmptyId_6.json", JDict([referenceId |-> JStr(""), name |-> JStr("Love")])),
      File("NoName_7.json", JDict([referenceId |-> JStr("3")])),
      File("NullName_8.json", JDict([referenceId |-> JStr("4"), name |-> None])),
      File("Trust_9.json", JDict([referenceId |-> JStr("1"), name |-> JStr("Trust")])),
      File("List_10.json", JList(<<>>)) }

\* The sequences without repetition of at most n elements of S.
ListsOf(S, n) ==
    {q \in SeqsUpTo(S, n) : \A i, j \in 1..Len(q) : i # j => q[i] # q[j]}
\* The subsets of S of at most n elements.
SubsetsUpTo(S, n) == {T \in SUBSET S : Cardinality(T) <= n}

----------------------------------------------------------------------------
(* Specification of build_resource_map: one loop iteration per step, over  *)
(* the term files in any order glob may list them.                         *)
Idle ==
    /\ tiptap_content = None /\ result = Ret(None) /\ texts = <<>>

InitMap ==
    /\ pc = "build"
    /\ variant \in Variants
    /\ term_files \in ListsOf(TermUniverse, MaxTerms)
    /\ resource_map = EmptyDict
    /\ idx = 1
    /\ log = <<>>
    /\ json_files = {} /\ book_notes = <<>> /\ usfm_content = "" /\ out_files = <<>>
    /\ Idle

MapLoop ==
    /\ pc = "build"
    /\ idx <= Len(term_files)
    /\ resource_map' = MapStep(resource_map, term_files[idx])
    /\ log' = IF ~term_files[idx].readable \/ term_files[idx].data.t # "dict"
              THEN Append(log, term_files[idx].fname) ELSE log
    /\ idx' = idx + 1
    /\ UNCHANGED <<pc, tiptap_content, result, variant, texts, term_files, json_files,
                   book_notes, usfm_content, out_files>>

MapReturn ==
    /\ pc = "build"
    /\ idx > Len(term_files)
    /\ pc' = "built"
    /\ UNCHANGED <<tiptap_content, resource_map, result, variant, texts, term_files,
                   json_files, idx, log, book_notes, usfm_content, out_files>>

NextMap == MapLoop \/ MapReturn
SpecMap == InitMap /\ [][NextMap]_vars

----------------------------------------------------------------------------
(* Specification of the two main() functions.                              *)
InitBatch ==
    /\ pc = "start"
    /\ variant \in Variants
    /\ json_files \in SubsetsUpTo(DocUniverse, MaxFiles)
    /\ term_files \in (IF variant = "notes" THEN {SortFiles(d) : d \in TermDirs}
                       ELSE {SortFiles(json_files)})
    /\ resource_map = EmptyDict
    /\ idx = 1
    /\ log = <<>>
    /\ book_notes = <<>>
    /\ usfm_content = ""
    /\ out_files = <<>>
    /\ Idle

\* resource_map = build_resource_map(...), and the dictionary's header.
BuildMap ==
    /\ pc = "start"
    /\ resource_map' = build_resource_map(term_files)
    /\ usfm_content' = IF variant = "dict" THEN DictHeader ELSE ""
    /\ pc' = "process"
    /\ UNCHANGED <<tiptap_content, result, variant, texts, term_files, json_files, idx,
                   log, book_notes, out_files>>

\* One iteration of `for i, json_file in enumerate(sorted(json_files))`.
ProcessFile ==
    /\ pc = "process"
    /\ idx <= Cardinality(json_files)
    /\ \E json_file \in {SortFiles(json_files)[idx]} :
         \E r \in {process_json_file(json_file, resource_map, variant)} :
            /\ log' = IF r.exc # "" THEN Append(log, json_file.fname) ELSE log
            /\ book_notes' =
                 IF r.exc = "" /\ variant = "notes"
                 THEN AppendNote(book_notes, r.book_name,
                                 [reference |-> r.reference, usfm |-> r.usfm])
                 ELSE book_notes
            /\ usfm_content' =
                 IF r.exc = "" /\ variant = "dict"
                 THEN usfm_content \o r.usfm \o "\n"
                 ELSE usfm_content
    /\ idx' = idx + 1
    /\ UNCHANGED <<pc, tiptap_content, resource_map, result, variant, texts, term_files,
                   json_files, out_files>>

\* The loop over the files is exhausted.
EndProcess ==
    /\ pc = "process"
    /\ idx > Cardinality(json_files)
    /\ pc' = "write"
    /\ idx' = 1
    /\ UNCHANGED <<tiptap_content, resource_map, result, variant, texts, term_files,
                   json_files, log, book_notes, usfm_content, out_files>>

\* One iteration of `for book_name, notes in book_notes.items()`: sort, render,
\* write.  A TypeError of the sort is caught nowhere and ends the run.
WriteBook ==
    /\ pc = "write"
    /\ variant = "notes"
    /\ idx <= Len(book_notes)
    /\ LET book_name == book_notes[idx].book_name
           book_id == get_book_id(book_name)
           sorted == SortNotes(book_notes[idx].notes)
       IN  IF sorted.exc # ""
           THEN /\ pc' = "crashed"
                /\ UNCHANGED <<book_notes, out_files, idx>>
           ELSE /\ book_notes' = [book_notes EXCEPT ![idx].notes = sorted.notes]
                /\ out_files' =
                      WriteFile(out_files, NotesOutputFile(book_id),
                                NotesHeader(book_id, book_name) \o NoteContents(sorted.notes))
                /\ idx' = idx + 1
                /\ UNCHANGED pc
    /\ UNCHANGED <<tiptap_content, resource_map, result, variant, texts, term_files,
                   json_files, log, usfm_content>>

\* The dictionary's single write.
WriteDictionary ==
    /\ pc = "write"
    /\ variant = "dict"
    /\ out_files' = WriteFile(out_files, DictOutputFile, usfm_content)
    /\ pc' = "done"
    /\ UNCHANGED <<tiptap_content, resource_map, result, variant, texts, term_files,
                   json_files, idx, log, book_notes, usfm_content>>

\* The loop over the books is exhausted: "Conversion complete".
Finish ==
    /\ pc = "write"
    /\ variant = "notes"
    /\ idx > Len(book_notes)
    /\ pc' = "done"
    /\ UNCHANGED <<tiptap_content, resource_map, result, variant, texts, term_files,
                   json_files, idx, log, book_notes, usfm_content, out_files>>

NextBatch == BuildMap \/ ProcessFile \/ EndProcess \/ WriteBook \/ WriteDictionary \/ Finish
SpecBatch == InitBatch /\ [][NextBatch]_vars

----------------------------------------------------------------------------
(* Claims about the flattener.                                             *)

\* C1: extract_text_from_tiptap never raises and always returns a string,
\* whatever value it is given.
C1_NeverRaisesAlwaysString ==
    pc = "returned" => (result.exc = "" /\ result.val.t = "str")

\* The identifier a mark carries, as the code reads it.
MarkResourceId(mark) ==
    IF "attrs" \in DOMAIN mark.v /\ "resourceId" \in DOMAIN mark.v["attrs"].v
    THEN mark.v["attrs"].v["resourceId"]
    ELSE None
\* Mark `mark` is a resourceReference whose identifier is a key of map rmap.
MatchingMark(mark, rmap) ==
    /\ "type" \in DOMAIN mark.v
    /\ mark.v["type"] = JStr("resourceReference")
    /\ rmap.t = "dict"
    /\ MarkResourceId(mark).t = "str"
    /\ MarkResourceId(mark).v \in DOMAIN rmap.v
LeafMarks(leaf) == IF "marks" \in DOMAIN leaf.v THEN leaf.v["marks"].v ELSE <<>>
HasMatchingMark(leaf, rmap) ==
    \E i \in 1..Len(LeafMarks(leaf)) : MatchingMark(LeafMarks(leaf)[i], rmap)

\* C2: for a text leaf, the call returns '\k ' + text + '\k*' when some mark
\* is a resourceReference whose identifier is a key of the resource map, and
\* the raw text in every other case (no marks, other marks, an identifier
\* absent from the map, an empty or missing map).
C2_LeafWrappedIffMatchingMark ==
    (pc = "returned" /\ tiptap_content \in TextLeaves) =>
        result =
            IF HasMatchingMark(tiptap_content, resource_map)
            THEN Ret(JStr("\\k " \o tiptap_content.v["text"].v \o "\\k*"))
            ELSE Ret(tiptap_content.v["text"])

\* A leaf whose first resourceReference mark is absent from the map and whose
\* second one is in it has been flattened to the wrapped text.
C2_Witness ==
    /\ pc = "returned"
    /\ tiptap_content =
          JDict([text |-> JStr("God"),
                 marks |-> JList(<<RRMark(JStr("2")), RRMark(JStr("1"))>>)])
    /\ resource_map = JDict([k \in {"1"} |-> JStr("Faith")])
    /\ result = Ret(JStr("\\k God\\k*"))

\* The children of a container node or of a bare list.
IsContainer(node) ==
    \/ node.t = "list"
    \/ /\ node.t = "dict"
       /\ "text" \notin DOMAIN node.v
       /\ "content" \in DOMAIN node.v
       /\ node.v["content"].t = "list"
Children(node) == IF node.t = "list" THEN node.v ELSE node.v["content"].v
RECURSIVE JoinAll(_)
JoinAll(strs) == IF strs = <<>> THEN "" ELSE Head(strs) \o JoinAll(Tail(strs))
ChildResults(node, rmap) ==
    [i \in 1..Len(Children(node)) |-> extract_text_from_tiptap(Children(node)[i], rmap)]
AllStrings(rs) == \A i \in 1..Len(rs) : rs[i].exc = "" /\ rs[i].val.t = "str"

\* C3: for a container node or a bare list, the call returns exactly the
\* concatenation, in list order and with no separator, of the call's results
\* on the children with the same map; the tree and the map are not modified.
C3_ContainerIsConcatenation ==
    /\ [](  (pc = "returned" /\ IsContainer(tiptap_content)
               /\ AllStrings(ChildResults(tiptap_content, resource_map)))
          => result =
                Ret(JStr(JoinAll([i \in 1..Len(Children(tiptap_content)) |->
                    ChildResults(tiptap_content, resource_map)[i].val.v]))))
    /\ [][tiptap_content' = tiptap_content /\ resource_map' = resource_map]_vars

\* A container of two leaves, the second one wrapped, has been flattened.
C3_Witness ==
    /\ pc = "returned"
    /\ tiptap_content =
          JDict([content |-> JList(<<JDict([text |-> JStr("a")]),
                 JDict([text |-> JStr("God"), marks |-> JList(<<RRMark(JStr("1"))>>)])>>)])
    /\ resource_map = JDict([k \in {"1"} |-> JStr("Faith")])
    /\ result = Ret(JStr("a\\k God\\k*"))

----------------------------------------------------------------------------
(* Claims about the reference tagger.                                      *)
Tag(s) == "\\xt " \o s \o "\\xt*"

\* C4: for every book B of the list and every chapter number N, the tagger
\* turns 'B chapter N' into exactly '\xt B N\xt*'.
C4_ChapterPhraseTagged ==
    \A b \in Books, n \in ChapterNumbers :
        (Len(texts) >= 2 /\ texts[1] = ChapterPhrase(b, n))
            => texts[2] = Tag(b \o " " \o n)

\* C5: for every book B of the list, the tagger turns 'book of B' into exactly
\* 'book of \xt B\xt*'.
C5_BookOfPhraseTagged ==
    \A b \in Books :
        (Len(texts) >= 2 /\ texts[1] = BookOfPhrase(b))
            => texts[2] = "book of " \o Tag(b)

\* C6: the tagger is not idempotent: on each citation it replaces literally,
\* the first run tags the citation and the second run, on that output, matches
\* the tagged citation and wraps it again, so the two outputs differ.
C6_SecondRunWrapsAgain ==
    \A i \in 1..Len(Literals(variant)) :
        (Len(texts) >= 3 /\ texts[1] = Literals(variant)[i])
            => /\ texts[2] = Tag(texts[1])
               /\ texts[3] = Tag(Tag(texts[1]))
               /\ texts[3] # texts[2]

\* The tagger has run twice on 'Exodus 3:14' and its outputs differ.
C6_Witness ==
    /\ Len(texts) >= 3
    /\ texts[1] = "Exodus 3:14"
    /\ texts[2] = "\\xt Exodus 3:14\\xt*"
    /\ texts[3] = "\\xt \\xt Exodus 3:14\\xt*\\xt*"

----------------------------------------------------------------------------
(* Claims about the resource map builder.                                  *)

\* A term file whose identifier and name are both present, non-null and
\* non-empty.
WellFormedTerm(file) ==
    /\ file.readable
    /\ file.data.t = "dict"
    /\ "referenceId" \in DOMAIN file.data.v
    /\ file.data.v["referenceId"] \notin {None, JStr("")}
    /\ "name" \in DOMAIN file.data.v
    /\ file.data.v["name"] \notin {None, JStr("")}

\* C7: the map holds an entry identifier -> name only for the files read so
\* far whose identifier and name are both present and non-empty, it holds one
\* for each of them, and a file that is malformed or lacks either field leaves
\* the map as it was.
C7_OnlyWellFormedEntries ==
    pc \in {"build", "built"} =>
        /\ \A k \in DOMAIN resource_map.v :
              \E i \in 1..(idx - 1) :
                  /\ WellFormedTerm(term_files[i])
                  /\ PyStr(term_files[i].data.v["referenceId"]) = k
                  /\ term_files[i].data.v["name"] = resource_map.v[k]
        /\ \A i \in 1..(idx - 1) :
              WellFormedTerm(term_files[i])
                  => PyStr(term_files[i].data.v["referenceId"]) \in DOMAIN resource_map.v

----------------------------------------------------------------------------
(* Claims about the batch orchestrators.                                   *)

\* What the processor makes of a source file of the run.
Processed(f) == process_json_file(f, build_resource_map(term_files), variant)
OkFiles == {f \in json_files : Processed(f).exc = ""}
FailedFiles == json_files \ OkFiles
\* The paths of the output directory that hold the record of f.
Holders(f) == {p \in DOMAIN out_files : Contains(out_files[p], Processed(f).usfm)}

\* C8: a failure on one source file is logged and never aborts the batch: the
\* run does not crash, every failed file is logged once the loop is over, and
\* when the run is done the output holds the record of every file that did not
\* fail.
C8_FailureNeverAbortsBatch ==
    /\ pc # "crashed"
    /\ pc \in {"write", "done"} =>
          {log[i] : i \in 1..Len(log)} = {f.fname : f \in FailedFiles}
    /\ pc = "done" => \A f \in OkFiles : Holders(f) # {}

\* The records accumulated for the i-th book of the run.
Records(i) == {book_notes[i].notes[k] : k \in 1..Len(book_notes[i].notes)}
\* The orderings of a set of records.
Orderings(S) == {q \in ListsOf(S, Cardinality(S)) : Len(q) = Cardinality(S)}
\* Non-decreasing lexicographic order of the reference labels.
LabelSorted(q) ==
    \A i, j \in 1..Len(q) :
        (i < j /\ q[i].reference.t = "str" /\ q[j].reference.t = "str")
            => ~StrLess(q[j].reference.v, q[i].reference.v)
\* The dictionary entries of the files of a list that did not fail, in list order.
RECURSIVE DictEntries(_)
DictEntries(files) ==
    IF files = <<>> THEN ""
    ELSE (IF Processed(files[1]).exc = "" THEN Processed(files[1]).usfm \o "\n" ELSE "")
         \o DictEntries(Tail(files))

\* C9: every study-notes output file is the header of a book followed by
\* exactly the records accumulated for that book in non-decreasing order of
\* their reference labels; the dictionary output is the header followed by the
\* entries in sorted file name order.
C9_OutputOrder ==
    /\ variant = "notes" =>
          \A p \in DOMAIN out_files :
              \E i \in 1..Len(book_notes) :
                  /\ p = NotesOutputFile(get_book_id(book_notes[i].book_name))
                  /\ \E q \in Orderings(Records(i)) :
                        /\ LabelSorted(q)
                        /\ out_files[p] =
                              NotesHeader(get_book_id(book_notes[i].book_name),
                                          book_notes[i].book_name) \o NoteContents(q)
    /\ (variant = "dict" /\ pc = "done") =>
          /\ DOMAIN out_files = {DictOutputFile}
          /\ out_files[DictOutputFile] = DictHeader \o DictEntries(SortFiles(json_files))

\* The run is done on two notes of Matthew whose file name order is the
\* reverse of their label order, and the output has them in label order.
C9_Witness ==
    /\ pc = "done"
    /\ variant = "notes"
    /\ json_files = {DocMatthew1, DocMatthew7}
    /\ out_files["MAT_StudyNotes.SFM"] =
          NotesHeader("MAT", "Matthew") \o Processed(DocMatthew7).usfm
                                        \o Processed(DocMatthew1).usfm

\* C10: when the study-notes batch is done, the note of every file processed
\* without error is in exactly one file of the output directory.
C10_EveryNoteInExactlyOneFile ==
    (variant = "notes" /\ pc = "done") =>
        \A f \in OkFiles : Cardinality(Holders(f)) = 1

====
